---- MODULE Spec2Model ----
(***************************************************************************)
(* Model of "apitrace trim" (cli/cli_trim.cpp): the ContiguousNumberTracker *)
(* and the read-filter-write loop of trim_trace, driven by command().      *)
(*                                                                         *)
(* The input trace is a finite sequence of calls fixed at start; each call *)
(* carries its number, its thread id and its flags.  The writer's output   *)
(* is recorded as the sequence of input positions whose call was handed to *)
(* writer.writeCall, in the order of the writes.                           *)
(***************************************************************************)
EXTENDS Integers, Sequences, FiniteSets, TLC

(* ------------------------------ bounds -------------------------------- *)

\* Longest input trace (number of calls in the file).
MaxLen == 3

\* Largest call number carried by a call of the input trace.
MaxNo == 2

(* ----------------------------- constants ------------------------------ *)

\* options.thread == -1 means "all threads".
AllThreads == -1

\* Upper end of an open-ended range and of the "everything" set: the
\* callset reports no finite last element for these.
Unbounded == 1000000

\* call->flags carries at most the end-of-frame flag in this model.
CALL_FLAG_END_FRAME == "END_FRAME"

\* Value of a local that is not yet in scope / not yet assigned.
NoValue == -1

\* The NULL pointer parse_call returns at the end of the trace.
NULL == [no |-> NoValue, thread_id |-> NoValue, flags |-> {}]

(* ------------------------- trace::CallSet ----------------------------- *)
\* A call set is a set of inclusive ranges [start, stop].

Range(a, b) == [start |-> a, stop |-> b]

\* trace::CallSet(trace::FREQUENCY_NONE)
FREQUENCY_NONE == {}

\* trace::CallSet(trace::FREQUENCY_ALL)
FREQUENCY_ALL == {Range(0, Unbounded)}

\* CallSet::empty()
Empty(set) == set = {}

\* CallSet::contains(no, flags)
Contains(set, n) == \E r \in set : r.start <= n /\ n <= r.stop

\* CallSet::getLast(); only called on a non-empty set.
GetLast(set) == CHOOSE m \in {r.stop : r \in set} : \A r \in set : r.stop <= m

(* ----------------------------- inputs --------------------------------- *)

\* Thread ids that calls of the trace carry.
ThreadIds == {1, 2}

\* A thread id that no call of the trace carries.
AbsentThread == 3

\* What --thread gives: nothing, a thread of the trace, an absent one.
ThreadOptions == {AllThreads, 1, AbsentThread}

Calls == [no : 0..MaxNo, thread_id : ThreadIds, flags : SUBSET {CALL_FLAG_END_FRAME}]

\* Sequences of calls of length n.
CallSeqs(n) == [1..n -> Calls]

\* The call numbers of a trace are unique (they need not be increasing).
UniqueNumbers(s) == \A i, j \in DOMAIN s : i # j => s[i].no # s[j].no

Traces == UNION {{s \in CallSeqs(n) : UniqueNumbers(s)} : n \in 0..MaxLen}

\* What --calls gives: nothing (the option is absent), or a set of ranges.
CallsOptions ==
    { FREQUENCY_NONE,
      {Range(0, 0)}, {Range(0, 1)}, {Range(1, 1)},
      {Range(0, 0), Range(MaxNo, MaxNo)},
      {Range(1, Unbounded)} }

\* What --frames gives.
FramesOptions ==
    { FREQUENCY_NONE, FREQUENCY_ALL, {Range(0, 0)}, {Range(1, 1)} }

(* ------------------------------ state --------------------------------- *)

VARIABLES
    pc,                  \* position: "command", "open", "create", "loop", "done"
    stream,              \* the calls of the input trace file
    argCalls,            \* the CALLSET of --calls (FREQUENCY_NONE if absent)
    argFrames,           \* the FRAMESET of --frames (FREQUENCY_NONE if absent)
    argThread,           \* the THREAD_ID of --thread (AllThreads if absent)
    calls,               \* options.calls
    frames,              \* options.frames
    thread,              \* options.thread
    pos,                 \* number of calls parse_call has returned
    call,                \* trim_trace's `call` (NULL after the last read)
    nextExpectedNumber,  \* callNumberTracker.nextExpectedNumber
    receivedOutOfOrder,  \* callNumberTracker.receivedOutOfOrder
    nextExpectedCall,    \* trim_trace's `nextExpectedCall`
    frame,               \* trim_trace's `frame`
    written,             \* positions of the calls written, in write order
    stopped,             \* TRUE once the loop was left through `break`
    writerOpen,          \* TRUE once writer.open has created the output
    status,              \* what trim_trace returned (NoValue before it returns)
    ioError              \* which call failed: "none", "open", "create", "read"

vars == <<pc, stream, argCalls, argFrames, argThread, calls, frames, thread,
          pos, call, nextExpectedNumber, receivedOutOfOrder, nextExpectedCall,
          frame, written, stopped, writerOpen, status, ioError>>

(* -------------------- ContiguousNumberTracker ------------------------- *)

\* Variant of the catch-up loop that advances without erasing.
CatchUpKeepsNumbers(next, outOfOrder) ==
    LET RECURSIVE Advance(_)
        Advance(m) == IF m \in outOfOrder THEN Advance(m + 1) ELSE m
    IN  [nextExpectedNumber |-> Advance(next), receivedOutOfOrder |-> outOfOrder]

\* Variant of the catch-up loop that flushes the whole set at once and
\* advances past its highest number, gaps or not.
CatchUpPastGaps(next, outOfOrder) ==
    [nextExpectedNumber |->
        IF \E m \in outOfOrder : m >= next
        THEN 1 + CHOOSE m \in outOfOrder : \A k \in outOfOrder : k <= m
        ELSE next,
     receivedOutOfOrder |-> {}]

\* The catch-up loop of finish(): erase nextExpectedNumber from the set
\* and advance, as long as the erase removes something.
RECURSIVE CatchUp(_, _)
CatchUp(next, outOfOrder) ==
    IF next \in outOfOrder
    THEN CatchUp(next + 1, outOfOrder \ {next})
    ELSE [nextExpectedNumber |-> next, receivedOutOfOrder |-> outOfOrder]

\* Variant of finish() without the catch-up loop.
finishNoCatchUp(next, outOfOrder, n) ==
    IF n = next
    THEN [nextExpectedNumber |-> next + 1, receivedOutOfOrder |-> outOfOrder]
    ELSE [nextExpectedNumber |-> next, receivedOutOfOrder |-> outOfOrder \cup {n}]

\* Variant of finish() that counts the calls made to it.
finishCountsCalls(next, outOfOrder, n) ==
    [nextExpectedNumber |-> next + 1, receivedOutOfOrder |-> outOfOrder]

\* Variant of finish() that keeps no out-of-order set: it reports one past
\* the highest number seen.
finishHighestSeen(next, outOfOrder, n) ==
    [nextExpectedNumber |-> IF n >= next THEN n + 1 ELSE next,
     receivedOutOfOrder |-> outOfOrder]

\* ContiguousNumberTracker::finish(n): the tracker after the call; the
\* value returned is its nextExpectedNumber.
finish(next, outOfOrder, n) ==
    IF n = next
    THEN CatchUp(next + 1, outOfOrder)
    ELSE [nextExpectedNumber |-> next, receivedOutOfOrder |-> outOfOrder \cup {n}]

(* --------------------------- trim_trace ------------------------------- *)

\* Variant of the write condition that looks at the frame counter after
\* the call's own end-of-frame flag has been counted.
ShouldWriteAfterCount(c, f) ==
    /\ (thread = AllThreads \/ c.thread_id = thread)
    /\ \/ Contains(calls, c.no)
       \/ Contains(frames, IF CALL_FLAG_END_FRAME \in c.flags THEN f + 1 ELSE f)

\* The condition under which the call is written.
ShouldWrite(c, f) ==
    /\ (thread = AllThreads \/ c.thread_id = thread)
    /\ (Contains(calls, c.no) \/ Contains(frames, f))

\* Variant of the write that keeps the output sorted by call number.
writeCallByNumber(w, p) ==
    LET lower == SelectSeq(w, LAMBDA q : stream[q].no < stream[p].no)
        upper == SelectSeq(w, LAMBDA q : stream[q].no >= stream[p].no)
    IN  lower \o <<p>> \o upper

\* writer.writeCall(call): the output with the call at position p added.
writeCall(w, p) == Append(w, p)

\* Variant of the frame count that counts every call as a frame.
NextFrameEveryCall(c, f) == f + 1

\* Variant of the frame count that counts only the calls that are written.
NextFrameIfWritten(c, f) ==
    IF CALL_FLAG_END_FRAME \in c.flags /\ ShouldWrite(c, f) THEN f + 1 ELSE f

\* The frame counter after the call.
NextFrame(c, f) == IF CALL_FLAG_END_FRAME \in c.flags THEN f + 1 ELSE f

\* Variant of the break condition that stops on reaching the last index
\* instead of passing it.
ShouldBreakAtLast(next, f) ==
    /\ (Empty(calls) \/ next >= GetLast(calls))
    /\ (Empty(frames) \/ f >= GetLast(frames))

\* Variant of the break condition in which one exhausted axis is enough.
ShouldBreakEitherAxis(next, f) ==
    \/ (~Empty(calls) /\ next > GetLast(calls))
    \/ (~Empty(frames) /\ f > GetLast(frames))

\* Variant of the break condition that looks at --calls only.
ShouldBreakCallsOnly(next, f) ==
    Empty(calls) \/ next > GetLast(calls)

\* The condition under which the loop is left through `break`.
ShouldBreak(next, f) ==
    /\ (Empty(calls) \/ next > GetLast(calls))
    /\ (Empty(frames) \/ f > GetLast(frames))

Init ==
    /\ pc = "command"
    /\ stream \in Traces
    /\ argCalls \in CallsOptions
    /\ argFrames \in FramesOptions
    /\ argThread \in ThreadOptions
    /\ calls = FREQUENCY_NONE
    /\ frames = FREQUENCY_NONE
    /\ thread = AllThreads
    /\ pos = 0
    /\ call = NULL
    /\ nextExpectedNumber = NoValue
    /\ receivedOutOfOrder = {}
    /\ nextExpectedCall = NoValue
    /\ frame = NoValue
    /\ written = <<>>
    /\ stopped = FALSE
    /\ writerOpen = FALSE
    /\ status = NoValue
    /\ ioError = "none"

\* CallSet::merge(str): the union of the set and the ranges of str.
Merge(set, arg) == set \cup arg

\* Variant of command() without the default for an empty selection.
CommandKeepsEmpty ==
    /\ pc = "command"
    /\ calls' = calls \cup argCalls
    /\ frames' = frames \cup argFrames
    /\ thread' = argThread
    /\ pc' = "open"
    /\ UNCHANGED <<stream, argCalls, argFrames, argThread, pos, call,
                   nextExpectedNumber, receivedOutOfOrder, nextExpectedCall,
                   frame, written, stopped, writerOpen, status, ioError>>

\* command(): the options are merged into the defaults; with neither
\* --calls nor --frames, the entire set of calls is taken; then
\* trim_trace is called.
Command ==
    /\ pc = "command"
    /\ LET c == Merge(calls, argCalls)
           f == Merge(frames, argFrames)
       IN  /\ calls' = IF Empty(c) /\ Empty(f) THEN FREQUENCY_ALL ELSE c
           /\ frames' = f
    /\ thread' = argThread
    /\ pc' = "open"
    /\ UNCHANGED <<stream, argCalls, argFrames, argThread, pos, call,
                   nextExpectedNumber, receivedOutOfOrder, nextExpectedCall,
                   frame, written, stopped, writerOpen, status, ioError>>

\* trim_trace: p.open(filename) succeeds.
OpenInput ==
    /\ pc = "open"
    /\ pc' = "create"
    /\ UNCHANGED <<stream, argCalls, argFrames, argThread, calls, frames, thread,
                   pos, call, nextExpectedNumber, receivedOutOfOrder,
                   nextExpectedCall, frame, written, stopped, writerOpen,
                   status, ioError>>

\* trim_trace: writer.open(...) succeeds; frame = 0 and the tracker is
\* constructed.
OpenOutput ==
    /\ pc = "create"
    /\ pc' = "loop"
    /\ frame' = 0
    /\ nextExpectedNumber' = 0
    /\ receivedOutOfOrder' = {}
    /\ writerOpen' = TRUE
    /\ UNCHANGED <<stream, argCalls, argFrames, argThread, calls, frames, thread,
                   pos, call, nextExpectedCall, written, stopped, status, ioError>>

\* Variant of the loop body that skips a call of another thread before
\* anything is recorded for it.
LoopIterationSkipsOtherThreads ==
    /\ pc = "loop"
    /\ pos < Len(stream)
    /\ LET c == stream[pos + 1]
           skip == thread # AllThreads /\ c.thread_id # thread
           t == IF skip
                THEN [nextExpectedNumber |-> nextExpectedNumber,
                      receivedOutOfOrder |-> receivedOutOfOrder]
                ELSE finish(nextExpectedNumber, receivedOutOfOrder, c.no)
           f == IF skip THEN frame ELSE NextFrame(c, frame)
           brk == ~skip /\ ShouldBreak(t.nextExpectedNumber, f)
       IN  /\ pos' = pos + 1
           /\ call' = c
           /\ nextExpectedNumber' = t.nextExpectedNumber
           /\ receivedOutOfOrder' = t.receivedOutOfOrder
           /\ nextExpectedCall' = IF skip THEN nextExpectedCall ELSE t.nextExpectedNumber
           /\ written' = IF ~skip /\ ShouldWrite(c, frame)
                         THEN writeCall(written, pos + 1) ELSE written
           /\ frame' = f
           /\ stopped' = brk
           /\ status' = IF brk THEN 0 ELSE status
           /\ pc' = IF brk THEN "done" ELSE "loop"
    /\ UNCHANGED <<stream, argCalls, argFrames, argThread, calls, frames, thread,
                   writerOpen, ioError>>

\* One iteration of the while loop: parse_call returns the next call of
\* the trace; it is tracked, written or skipped, the frame counter is
\* updated and the loop is left if nothing further can be asked for;
\* after the loop trim_trace returns 0.
LoopIteration ==
    /\ pc = "loop"
    /\ pos < Len(stream)
    /\ LET c == stream[pos + 1]
           t == finish(nextExpectedNumber, receivedOutOfOrder, c.no)
           f == NextFrame(c, frame)
       IN  /\ pos' = pos + 1
           /\ call' = c
           /\ nextExpectedNumber' = t.nextExpectedNumber
           /\ receivedOutOfOrder' = t.receivedOutOfOrder
           /\ nextExpectedCall' = t.nextExpectedNumber
           /\ written' = IF ShouldWrite(c, frame) THEN writeCall(written, pos + 1) ELSE written
           /\ frame' = f
           /\ stopped' = ShouldBreak(t.nextExpectedNumber, f)
           /\ status' = IF ShouldBreak(t.nextExpectedNumber, f) THEN 0 ELSE status
           /\ pc' = IF ShouldBreak(t.nextExpectedNumber, f) THEN "done" ELSE "loop"
    /\ UNCHANGED <<stream, argCalls, argFrames, argThread, calls, frames, thread,
                   writerOpen, ioError>>

\* Variant of the end of the loop that takes a trace without calls for a
\* failure.
EndOfTraceEmptyFails ==
    /\ pc = "loop"
    /\ pos = Len(stream)
    /\ call' = NULL
    /\ status' = IF pos = 0 THEN 1 ELSE 0
    /\ pc' = "done"
    /\ UNCHANGED <<stream, argCalls, argFrames, argThread, calls, frames, thread,
                   pos, nextExpectedNumber, receivedOutOfOrder, nextExpectedCall,
                   frame, written, stopped, writerOpen, ioError>>

\* parse_call returns NULL at the end of the trace: the loop ends and
\* trim_trace returns 0.
EndOfTrace ==
    /\ pc = "loop"
    /\ pos = Len(stream)
    /\ call' = NULL
    /\ status' = 0
    /\ pc' = "done"
    /\ UNCHANGED <<stream, argCalls, argFrames, argThread, calls, frames, thread,
                   pos, nextExpectedNumber, receivedOutOfOrder, nextExpectedCall,
                   frame, written, stopped, writerOpen, ioError>>

Next == Command \/ OpenInput \/ OpenOutput \/ LoopIteration \/ EndOfTrace

Spec == Init /\ [][Next]_vars

(* ---------------------- failing input and output ---------------------- *)

\* Variant of the failed p.open in which the `return 1` is missing.
OpenInputFailsGoesOn ==
    /\ pc = "open"
    /\ ioError' = "open"
    /\ pc' = "create"
    /\ UNCHANGED <<stream, argCalls, argFrames, argThread, calls, frames, thread,
                   pos, call, nextExpectedNumber, receivedOutOfOrder,
                   nextExpectedCall, frame, written, stopped, writerOpen, status>>

\* trim_trace: p.open(filename) fails; the error is reported and
\* trim_trace returns 1.
OpenInputFails ==
    /\ pc = "open"
    /\ ioError' = "open"
    /\ status' = 1
    /\ pc' = "done"
    /\ UNCHANGED <<stream, argCalls, argFrames, argThread, calls, frames, thread,
                   pos, call, nextExpectedNumber, receivedOutOfOrder,
                   nextExpectedCall, frame, written, stopped, writerOpen>>

\* trim_trace: writer.open(...) fails; the error is reported and
\* trim_trace returns 1.
OpenOutputFails ==
    /\ pc = "create"
    /\ ioError' = "create"
    /\ status' = 1
    /\ pc' = "done"
    /\ UNCHANGED <<stream, argCalls, argFrames, argThread, calls, frames, thread,
                   pos, call, nextExpectedNumber, receivedOutOfOrder,
                   nextExpectedCall, frame, written, stopped, writerOpen>>

\* A read fails before the end of the trace: parse_call yields no call,
\* which is all the loop condition sees; the loop ends and trim_trace
\* returns 0.
ReadFails ==
    /\ pc = "loop"
    /\ pos < Len(stream)
    /\ call' = NULL
    /\ ioError' = "read"
    /\ status' = 0
    /\ pc' = "done"
    /\ UNCHANGED <<stream, argCalls, argFrames, argThread, calls, frames, thread,
                   pos, nextExpectedNumber, receivedOutOfOrder, nextExpectedCall,
                   frame, written, stopped, writerOpen>>

NextIO == Next \/ OpenInputFails \/ OpenOutputFails \/ ReadFails

\* trim with an input and an output that may fail.
SpecIO == Init /\ [][NextIO]_vars

(* ------------------- traces with repeated numbers --------------------- *)

\* Traces whose call numbers may repeat.
AnyTraces == UNION {CallSeqs(n) : n \in 0..MaxLen}

\* trim of a trace whose numbers may repeat, with no selection or with
\* --calls 0-1, for all threads or for thread 1.
InitAnyNumbers ==
    /\ pc = "command"
    /\ stream \in AnyTraces
    /\ argCalls \in {FREQUENCY_NONE, {Range(0, 1)}}
    /\ argFrames = FREQUENCY_NONE
    /\ argThread \in {AllThreads, 1}
    /\ calls = FREQUENCY_NONE
    /\ frames = FREQUENCY_NONE
    /\ thread = AllThreads
    /\ pos = 0
    /\ call = NULL
    /\ nextExpectedNumber = NoValue
    /\ receivedOutOfOrder = {}
    /\ nextExpectedCall = NoValue
    /\ frame = NoValue
    /\ written = <<>>
    /\ stopped = FALSE
    /\ writerOpen = FALSE
    /\ status = NoValue
    /\ ioError = "none"

SpecAnyNumbers == InitAnyNumbers /\ [][Next]_vars

(* ------------------- what the trace says, by position ------------------ *)

\* The positions 1..n of the trace, in order.
Positions(n) == [i \in 1..n |-> i]

\* Number of end-of-frame calls among the first i - 1 calls of the trace:
\* the index of the frame the i-th call belongs to.
FrameOf(i) == Cardinality({k \in 1..(i - 1) : CALL_FLAG_END_FRAME \in stream[k].flags})

\* The call numbers of the first i calls of the trace.
NumbersRead(i) == {stream[k].no : k \in 1..i}

\* The smallest number that none of the first i calls carries.
FirstMissing(i) ==
    CHOOSE n \in 0..i : n \notin NumbersRead(i) /\ \A m \in 0..(n - 1) : m \in NumbersRead(i)

\* The call at position i passes the thread filter.
ThreadPasses(i) == thread = AllThreads \/ stream[i].thread_id = thread

\* The call at position i is asked for by --calls or by --frames.
Selected(i) ==
    \/ \E r \in calls : r.start <= stream[i].no /\ stream[i].no <= r.stop
    \/ \E r \in frames : r.start <= FrameOf(i) /\ FrameOf(i) <= r.stop

\* The call at position i is to be in the output.
Wanted(i) == ThreadPasses(i) /\ Selected(i)

\* Positions were written.
WasWritten(i) == \E k \in DOMAIN written : written[k] = i

\* n exceeds every index of the set.
Exceeds(n, set) == \A r \in set : n > r.stop

\* The set has no finite highest index.
IsUnbounded(set) == \E r \in set : r.stop = Unbounded

\* Some call was read after a call with a higher number.
OutOfOrderRead == \E i, j \in 1..pos : i < j /\ stream[i].no > stream[j].no

(* -------------------------------- C1 ---------------------------------- *)

\* C1: early termination never loses a selected call: when trim_trace is
\* done, the calls written are exactly the calls of the whole trace that
\* the per-call decision selects, in trace order (call numbers unique, in
\* any arrival order; any thread filter, any calls and frames selection).
C1_NoSelectedCallLost ==
    pc = "done" => written = SelectSeq(Positions(Len(stream)), Wanted)

\* The loop was left early, after an out-of-order arrival, with calls
\* written and calls left unread.
C1_Witness ==
    /\ pc = "done" /\ stopped /\ pos < Len(stream)
    /\ OutOfOrderRead /\ written # <<>>

(* -------------------------------- C2 ---------------------------------- *)

\* C2: a call that was read is written iff the thread filter is "all" or
\* equals its thread id, and --calls contains its number or --frames
\* contains the frame counter as it stood before the call's own
\* end-of-frame flag was counted.
C2_WrittenIffSelected ==
    pc \in {"loop", "done"} =>
        \A i \in 1..pos :
            WasWritten(i) <=>
                /\ (thread = AllThreads \/ stream[i].thread_id = thread)
                /\ \/ \E r \in calls : r.start <= stream[i].no /\ stream[i].no <= r.stop
                   \/ \E r \in frames : r.start <= FrameOf(i) /\ FrameOf(i) <= r.stop

\* An end-of-frame call was written only because the frame it closes is
\* selected (the frame after it is not), and another call was rejected by
\* the thread filter alone.
C2_Witness ==
    /\ pc = "done" /\ thread # AllThreads /\ Empty(calls)
    /\ \E i \in 1..pos :
          /\ CALL_FLAG_END_FRAME \in stream[i].flags
          /\ WasWritten(i)
          /\ ~ \E r \in frames : r.start <= FrameOf(i) + 1 /\ FrameOf(i) + 1 <= r.stop
    /\ \E i \in 1..pos : Selected(i) /\ ~ThreadPasses(i) /\ ~WasWritten(i)

(* -------------------------------- C3 ---------------------------------- *)

\* C3: the calls written are a subsequence of the calls read: the written
\* positions are positions already read, strictly increasing (read order
\* is kept, nothing is written twice), whatever the order of the numbers.
C3_WrittenInReadOrder ==
    /\ \A k \in DOMAIN written : written[k] \in 1..pos
    /\ \A j, k \in DOMAIN written : j < k => written[j] < written[k]

\* Two calls were written whose numbers are in decreasing order.
C3_Witness ==
    \E j, k \in DOMAIN written :
        j < k /\ stream[written[j]].no > stream[written[k]].no

(* -------------------------------- C4 ---------------------------------- *)

\* C4: after a call has been processed, the loop stops reading iff
\* (--calls is empty or nextExpectedCall exceeds its highest index) and
\* (--frames is empty or the frame counter exceeds its highest index);
\* otherwise control is back at the head of the loop, where the next call
\* is read.
C4_StopsIffBothAxesDone ==
    (pc \in {"loop", "done"} /\ pos > 0 /\ call # NULL) =>
        LET done == /\ (calls = {} \/ Exceeds(nextExpectedCall, calls))
                    /\ (frames = {} \/ Exceeds(frame, frames))
        IN  /\ stopped <=> done
            /\ stopped <=> pc = "done"
            /\ ~done => pc = "loop"

\* The loop stopped with both selections given, and calls left unread.
C4_Witness ==
    /\ pc = "done" /\ stopped /\ pos < Len(stream)
    /\ calls # {} /\ frames # {}

(* -------------------------------- C5 ---------------------------------- *)

\* C5: with a non-empty --calls whose highest index is M, the loop is never
\* left early while an index of 0..M is unread, also when M or a higher
\* number has already arrived; and every call asked for by --calls that
\* arrives after a higher number (and passes the thread filter) is written.
C5_NoStopBeforeContiguous ==
    calls # {} =>
        /\ stopped => \A r \in calls : \A n \in 0..r.stop : n \in NumbersRead(pos)
        /\ pc = "done" =>
              \A i \in 1..Len(stream) :
                  ( /\ \E r \in calls : r.start <= stream[i].no /\ stream[i].no <= r.stop
                    /\ ThreadPasses(i)
                    /\ \E j \in 1..(i - 1) : stream[j].no > stream[i].no )
                  => WasWritten(i)

\* The highest index asked for (or a higher number) arrived before a lower
\* index asked for; the loop went on, wrote the lower one, and stopped.
C5_Witness ==
    /\ pc = "done" /\ stopped /\ calls # {}
    /\ \E i \in 1..pos :
          /\ \E j \in 1..(i - 1) : Exceeds(stream[j].no + 1, calls)
                                   /\ stream[j].no > stream[i].no
          /\ \E r \in calls : r.start <= stream[i].no /\ stream[i].no <= r.stop
          /\ WasWritten(i)

(* -------------------------------- C6 ---------------------------------- *)

\* The trace carries the numbers 0, 1, ..., N-1 in this order.
InOrderNoGaps == \A i \in 1..Len(stream) : stream[i].no = i - 1

\* The call at position i is asked for by --calls.
InCalls(i) == \E r \in calls : r.start <= stream[i].no /\ stream[i].no <= r.stop

\* C6: for an in-order trace 0..N-1 without gaps, thread filter "all", no
\* --frames and a --calls whose highest index M is below N-1: exactly the
\* calls whose number is in --calls are written, in order, and the loop
\* stops early having read at least M+1 and at most M+2 calls.
C6_InOrderStopsAfterLast ==
    ( /\ pc = "done" /\ InOrderNoGaps /\ thread = AllThreads
      /\ frames = {} /\ calls # {}
      /\ Exceeds(Len(stream) - 1, calls) )
    => /\ written = SelectSeq(Positions(Len(stream)), InCalls)
       /\ stopped
       /\ \E r \in calls : /\ \A q \in calls : q.stop <= r.stop
                             /\ r.stop + 1 <= pos
                             /\ pos <= r.stop + 2

\* An in-order trace of which a proper part was asked for and written.
C6_Witness ==
    /\ pc = "done" /\ InOrderNoGaps /\ thread = AllThreads
    /\ frames = {} /\ calls # {} /\ Exceeds(Len(stream) - 1, calls)
    /\ Len(written) >= 2 /\ pos < Len(stream)

(* -------------------------------- C7 ---------------------------------- *)

\* The call at position i lies in a frame asked for by --frames.
InFrames(i) == \E r \in frames : r.start <= FrameOf(i) /\ FrameOf(i) <= r.stop

\* C7: with no --calls, thread filter "all" and a bounded --frames: the
\* calls written are exactly the calls of the trace that lie in a selected
\* frame, the end-of-frame call that closes the frame included; nothing
\* after the end-of-frame call closing the highest selected frame is
\* written.
C7_FramesWrittenWhole ==
    ( /\ pc = "done" /\ calls = {} /\ thread = AllThreads
      /\ frames # {} /\ ~IsUnbounded(frames) )
    => /\ \A i \in 1..Len(stream) : WasWritten(i) <=> InFrames(i)
       /\ \A i \in 1..Len(stream) : WasWritten(i) => ~Exceeds(FrameOf(i), frames)

\* --frames 0 on a trace with two end-of-frame calls: the calls up to the
\* first of them were written, the rest was not read.
C7_Witness ==
    /\ pc = "done" /\ calls = {} /\ thread = AllThreads
    /\ frames = {Range(0, 0)}
    /\ Cardinality({k \in 1..Len(stream) : CALL_FLAG_END_FRAME \in stream[k].flags}) = 2
    /\ Len(written) = 2 /\ CALL_FLAG_END_FRAME \in stream[2].flags
    /\ pos = 2

(* -------------------------------- C8 ---------------------------------- *)

\* After the i-th call, nothing further can be asked for: every number up
\* to the highest index of --calls has been read and the frame counter is
\* past the highest index of --frames.
NothingLeftAfter(i) ==
    /\ (calls = {} \/ Exceeds(FirstMissing(i), calls))
    /\ (frames = {} \/ Exceeds(FrameOf(i + 1), frames))

\* The number of calls the termination rule lets the loop read; the
\* thread filter plays no part in it.
StopPoint ==
    IF \E i \in 1..Len(stream) : NothingLeftAfter(i)
    THEN CHOOSE i \in 1..Len(stream) :
             NothingLeftAfter(i) /\ \A k \in 1..(i - 1) : ~NothingLeftAfter(k)
    ELSE Len(stream)

\* C8: the thread filter decides which calls are written, never how far
\* the loop reads: whatever --thread is, the loop stops at the point the
\* termination rule gives (the end of the trace if an axis is unbounded);
\* with a thread id no call carries, nothing is written.
C8_ThreadFilterNotInStop ==
    pc = "done" =>
        /\ pos = StopPoint
        /\ thread = AbsentThread => written = <<>>

\* With an absent thread id, the loop stopped early over calls that were
\* asked for, and wrote none.
C8_Witness ==
    /\ pc = "done" /\ thread = AbsentThread /\ stopped
    /\ pos > 1 /\ pos < Len(stream) /\ written = <<>>
    /\ \E i \in 1..pos : Selected(i)

(* -------------------------------- C9 ---------------------------------- *)

\* C9: if --calls or --frames is everything, or otherwise unbounded above,
\* the loop is never left through `break`: every call is read, also when
\* the other axis is bounded and exhausted.
C9_UnboundedReadsAll ==
    (pc = "done" /\ (IsUnbounded(calls) \/ IsUnbounded(frames))) =>
        pos = Len(stream) /\ ~stopped

\* --frames is everything, --calls is bounded and was exhausted before the
\* last call, and the loop read on to the end.
C9_Witness ==
    /\ pc = "done" /\ IsUnbounded(frames)
    /\ calls # {} /\ ~IsUnbounded(calls)
    /\ pos = Len(stream)
    /\ \E i \in 1..(pos - 1) : Exceeds(FirstMissing(i), calls)

(* -------------------------------- C10 --------------------------------- *)

\* C10: with neither --calls nor --frames given, options.calls is the
\* entire set of calls from before the loop starts; every call that passes
\* the thread filter is written and the trace is read to its end.
C10_DefaultIsEverything ==
    (argCalls = {} /\ argFrames = {}) =>
        /\ pc # "command" => calls = FREQUENCY_ALL
        /\ pc = "done" =>
              /\ pos = Len(stream)
              /\ \A i \in 1..Len(stream) :
                    WasWritten(i) <=> (argThread = AllThreads \/ stream[i].thread_id = argThread)

\* No selection was given; some calls passed the thread filter and were
\* written, others did not.
C10_Witness ==
    /\ pc = "done" /\ argCalls = {} /\ argFrames = {}
    /\ Len(stream) >= 2 /\ written # <<>> /\ Len(written) < Len(stream)

(* -------------------------------- C11 --------------------------------- *)

\* C11: when the numbers passed to finish on a fresh tracker are the
\* numbers 0, 1, ..., N-1, each once and in any order, the tracker reports
\* nextExpectedNumber = N after the N calls.
C11_AllFinishedGivesN ==
    (pc \in {"loop", "done"} /\ NumbersRead(pos) = 0..(pos - 1)) =>
        nextExpectedNumber = pos

\* Three numbers were finished, not starting with 0 and not in order.
C11_Witness ==
    /\ pc \in {"loop", "done"} /\ pos = 3 /\ NumbersRead(pos) = 0..2
    /\ stream[1].no # 0 /\ OutOfOrderRead
    /\ nextExpectedNumber = 3

(* -------------------------------- C12 --------------------------------- *)

C16_TrackerInvariant ==
    /\ [](\A m \in receivedOutOfOrder : m > nextExpectedNumber)
    /\ [][nextExpectedNumber' >= nextExpectedNumber]_vars

\* The set held two numbers, then a catch-up emptied it.
C16_Witness ==
    /\ pc \in {"loop", "done"} /\ pos = 3
    /\ stream[3].no = 0 /\ nextExpectedNumber = 3 /\ receivedOutOfOrder = {}

(* -------------------------------- C17 --------------------------------- *)

\* C17: for a trace without calls (the first read reports the end of the
\* trace) nothing is written and trim_trace returns 0, the output having
\* been created.
C17_EmptyTraceSucceeds ==
    (pc = "done" /\ Len(stream) = 0 /\ ioError = "none") =>
        /\ written = <<>>
        /\ status = 0
        /\ writerOpen
        /\ pos = 0 /\ call = NULL /\ ~stopped

\* trim_trace is done with an empty trace for which calls were asked.
C17_Witness ==
    /\ pc = "done" /\ Len(stream) = 0 /\ ioError = "none"
    /\ argCalls # {} /\ status = 0

(* -------------------------------- C18 --------------------------------- *)

\* C18: the frame counter is 0 when the loop starts and, after each call,
\* is the number of end-of-frame calls read so far, written or not; so it
\* never decreases.
C18_FrameCountsEndFrames ==
    /\ pc \in {"loop", "done"} =>
          frame = Cardinality({k \in 1..pos : CALL_FLAG_END_FRAME \in stream[k].flags})
    /\ pc \in {"command", "open", "create"} => frame = NoValue

\* Two end-of-frame calls were read; one was rejected by the thread
\* filter, one by the selection, and both were counted.
C18_Witness ==
    /\ pc = "done" /\ frame = 2 /\ written = <<>>
    /\ \E i, j \in 1..pos :
          /\ CALL_FLAG_END_FRAME \in stream[i].flags /\ ~ThreadPasses(i)
          /\ CALL_FLAG_END_FRAME \in stream[j].flags /\ ThreadPasses(j) /\ ~Selected(j)

(* -------------------------------- C13 --------------------------------- *)

\* C13: a read that fails before the end of the trace stops the loop and
\* is reported to the caller as an error, a return value other than the 0
\* of a clean end of the trace; what was written stays in the output.
C13_ReadFailureIsReported ==
    ioError = "read" => (pc = "done" /\ status # 0)

(* -------------------------------- C14 --------------------------------- *)

\* C14: if the input cannot be opened or the output cannot be created,
\* trim_trace returns 1 before any call is processed: no call is read,
\* the tracker is never called, nothing is written; and when the input
\* cannot be opened the output is not created.
C14_OpenFailureStopsAtOnce ==
    ioError \in {"open", "create"} =>
        /\ pc = "done" /\ status = 1
        /\ pos = 0 /\ call = NULL
        /\ nextExpectedNumber = NoValue /\ receivedOutOfOrder = {}
        /\ nextExpectedCall = NoValue
        /\ written = <<>>
        /\ ioError = "open" => ~writerOpen

\* The output of a trace with calls that were asked for could not be
\* created.
C14_Witness ==
    /\ ioError = "create" /\ pc = "done" /\ status = 1
    /\ Len(stream) > 0 /\ Empty(frames) /\ Contains(calls, stream[1].no)

(* -------------------------------- C15 --------------------------------- *)

\* C15: finish(n) with n below nextExpectedNumber changes nothing: both
\* nextExpectedNumber and receivedOutOfOrder stay as they are.
C15_StaleFinishChangesNothing ==
    [][ ( /\ pc = "loop" /\ pos < Len(stream)
          /\ stream[pos + 1].no < nextExpectedNumber )
        => ( /\ nextExpectedNumber' = nextExpectedNumber
             /\ receivedOutOfOrder' = receivedOutOfOrder ) ]_vars

(* -------------------------------- C19 --------------------------------- *)

====
